---- MODULE Spec2Model ----
(***************************************************************************)
(* A model of the data-preparation code of the cyBERT training notebook    *)
(* (src/cybert_example_training_dns.ipynb): punctuation splitting, the     *)
(* BIO labeler, the sub-word labeler, the label dictionary, label padding  *)
(* and the training/validation split.                                      *)
(*                                                                         *)
(* A Python string is a sequence of one-character strings, a token is     *)
(* such a sequence without whitespace, and a label is a TLA+ string.       *)
(***************************************************************************)
EXTENDS Integers, Sequences, FiniteSets, TLC

VARIABLES
    pc,                 \* position of the notebook cell / function being run
    text,               \* punctuation_spliter: its argument
    tokens,             \* punctuation_spliter(text).split()
    raw_preprocess,     \* logs_df.raw_preprocess[index_no]
    raw_split,          \* labeler: raw_split
    label_list,         \* labeler: label_list
    col_no,             \* labeler: number of columns of cols already processed
    col_value,          \* labeler: str(logs_df[col][index_no]) of the last column read
    matched,            \* labeler: the spans matched so far, <<col, ind, len>> (history)
    log_list,           \* logs_df.raw_preprocess of every row
    labels,             \* the notebook's labels: one label list per row
    tokenizer,          \* the sub-word tokenizer: word -> metadata[:,2] of the word
    subword_counts,     \* subword_labeler: the tokenizer's metadata[:,2], per row
    subword_labels,     \* subword_labeler's result
    label_values,       \* list(set(...)) with '[PAD]' put first
    label2id,           \* label -> id
    id2label,           \* id -> label
    padded_labels,      \* rows cut to 512 and padded with '[PAD]'
    int_labels,         \* the ids of padded_labels
    dataset_size,       \* len(input_ids)
    training_dataset,   \* indices of the training Subset
    validation_dataset  \* indices of the validation Subset

vars == <<pc, text, tokens, raw_preprocess, raw_split, label_list, col_no,
          col_value, matched, log_list, labels, tokenizer, subword_counts,
          subword_labels,
          label_values, label2id, id2label, padded_labels, int_labels,
          dataset_size, training_dataset, validation_dataset>>

punctVars == <<text, tokens>>
labelerVars == <<raw_preprocess, raw_split, label_list, col_no, col_value, matched>>
dataVars == <<log_list, labels>>
subwordVars == <<tokenizer, subword_counts, subword_labels>>
dictVars == <<label_values, label2id, id2label>>
padVars == <<padded_labels, int_labels>>
splitVars == <<dataset_size, training_dataset, validation_dataset>>

\* The variables of the cells a specification does not run keep these values.
PunctIdle == text = <<>> /\ tokens = <<>>
LabelerIdle ==
    /\ raw_preprocess = <<>> /\ raw_split = <<>> /\ label_list = <<>>
    /\ col_no = 0 /\ col_value = <<>> /\ matched = <<>>
DataIdle == log_list = <<>> /\ labels = <<>>
SubwordIdle == tokenizer = <<>> /\ subword_counts = <<>> /\ subword_labels = <<>>
DictIdle == label_values = <<>> /\ label2id = <<>> /\ id2label = <<>>
PadIdle == padded_labels = <<>> /\ int_labels = <<>>
SplitIdle == dataset_size = 0 /\ training_dataset = <<>> /\ validation_dataset = <<>>

-----------------------------------------------------------------------------
(* Bounds of the model.                                                    *)

\* longest text given to punctuation_spliter in PunctSpec
MaxText == 4
\* longest raw log (characters) of a row in LabelerSpec
MaxRaw == 4
\* longest column value (characters) in LabelerSpec
MaxVal == 2
\* most rows of a dataset
MaxRows == 2
\* most additional sub-word pieces of a word
MaxPieces == 2
\* PadSpec: most unlabelled words after the labelled ones in a short row
MaxShort == 2
\* PadSpec: a long row has within MaxNear of 512 unlabelled words
MaxNear == 2
\* SplitSpec: most records of the dataset
MaxSize == 5

-----------------------------------------------------------------------------
(* Python's str and list primitives.                                       *)

Min(a, b) == IF a < b THEN a ELSE b
Max(a, b) == IF a > b THEN a ELSE b

\* All sequences over S of length at most n.
SeqsUpTo(S, n) == UNION {[1..m -> S] : m \in 0..n}

\* string.punctuation, in its order. The grave accent cannot be written in a
\* TLA+ string (it opens a quotation there), so the atom "GRAVE" stands for it.
punctuation ==
    <<"!", "\"", "#", "$", "%", "&", "'", "(", ")", "*", "+", ",", "-", ".",
      "/", ":", ";", "<", "=", ">", "?", "@", "[", "\\", "]", "^", "_", "GRAVE",
      "{", "|", "}", "~">>

PunctSet == {punctuation[i] : i \in 1..Len(punctuation)}

\* the characters str.split() splits on
Whitespace == {" ", "\t", "\n"}

\* s[a:b] of Python with 0 <= a <= b: the elements a .. b-1 (0-based), clipped
\* to the list.
PySlice(s, a, b) == SubSeq(s, a + 1, Min(b, Len(s)))

\* s[a:b] = new of Python with 0 <= a <= b (slice assignment, clipped).
PySliceAssign(s, a, b, new) ==
    SubSeq(s, 1, Min(a, Len(s))) \o new \o SubSeq(s, Min(b, Len(s)) + 1, Len(s))

\* [x] * n
Repeat(x, n) == [i \in 1..Max(n, 0) |-> x]

\* str.replace(symbol, repl) for a one-character symbol: every occurrence, left
\* to right.
RECURSIVE replace(_, _, _)
replace(s, symbol, repl) ==
    IF s = <<>> THEN <<>>
    ELSE (IF Head(s) = symbol THEN repl ELSE <<Head(s)>>)
         \o replace(Tail(s), symbol, repl)

\* One pass of the loop of punctuation_spliter.
SplitSymbolMissingSpace(s, symbol) == replace(s, symbol, <<symbol, " ">>)
SplitSymbol(s, symbol) == replace(s, symbol, <<" ", symbol, " ">>)

RECURSIVE SplitFrom(_, _)
SplitFrom(s, k) ==
    IF k > Len(punctuation) THEN s
    ELSE SplitFrom(SplitSymbol(s, punctuation[k]), k + 1)

punctuation_spliter(s) == SplitFrom(s, 1)

\* str.split(): the maximal runs of non-whitespace characters, in order.
RECURSIVE SplitAcc(_, _)
SplitAcc(s, cur) ==
    IF s = <<>> THEN (IF cur = <<>> THEN <<>> ELSE <<cur>>)
    ELSE IF Head(s) \in Whitespace
         THEN (IF cur = <<>> THEN <<>> ELSE <<cur>>) \o SplitAcc(Tail(s), <<>>)
         ELSE SplitAcc(Tail(s), Append(cur, Head(s)))

split(s) == SplitAcc(s, <<>>)

-----------------------------------------------------------------------------
(* punctuation_spliter followed by split (PunctSpec).                      *)

\* the characters texts are drawn from
TextAlphabet == {"a", "b", "-", ".", "[", " ", "\t"}

PunctInit ==
    /\ pc = "punct"
    /\ text \in SeqsUpTo(TextAlphabet, MaxText)
    /\ tokens = <<>>
    /\ LabelerIdle /\ DataIdle /\ SubwordIdle /\ DictIdle /\ PadIdle /\ SplitIdle

Tokenize ==
    /\ pc = "punct"
    /\ tokens' = split(punctuation_spliter(text))
    /\ pc' = "punct_done"
    /\ UNCHANGED <<text, labelerVars, dataVars, subwordVars, dictVars, padVars, splitVars>>

PunctNext == Tokenize

PunctSpec == PunctInit /\ [][PunctNext]_vars

RECURSIVE Concat(_)
Concat(ss) == IF ss = <<>> THEN <<>> ELSE Head(ss) \o Concat(Tail(ss))

\* s without the elements in D
RECURSIVE Without(_, _)
Without(s, D) ==
    IF s = <<>> THEN <<>>
    ELSE (IF Head(s) \in D THEN <<>> ELSE <<Head(s)>>) \o Without(Tail(s), D)

Count(s, D) == Cardinality({i \in 1..Len(s) : s[i] \in D})

\* C7: every token of punctuation_spliter(text).split() is one punctuation
\* character or a non-empty string without punctuation and whitespace, each
\* punctuation character of the text is a token of its own exactly once, and
\* the tokens concatenated are the text without its whitespace.
C7_Tokenizes ==
    pc = "punct_done" =>
        /\ \A i \in 1..Len(tokens) :
              \/ Len(tokens[i]) = 1 /\ tokens[i][1] \in PunctSet
              \/ /\ tokens[i] # <<>>
                 /\ \A j \in 1..Len(tokens[i]) :
                       tokens[i][j] \notin PunctSet \cup Whitespace
        /\ Cardinality({i \in 1..Len(tokens) :
                          Len(tokens[i]) = 1 /\ tokens[i][1] \in PunctSet})
             = Count(text, PunctSet)
        /\ Concat(tokens) = Without(text, Whitespace)

\* a text with two different punctuation characters next to a word was split
C7_Witness ==
    /\ pc = "punct_done"
    /\ Count(text, PunctSet) >= 2
    /\ Count(text, Whitespace) >= 1
    /\ \E i \in 1..Len(tokens) : tokens[i] = <<"a">>
    /\ \E i, j \in 1..Len(tokens) :
          /\ Len(tokens[i]) = 1 /\ Len(tokens[j]) = 1
          /\ tokens[i][1] \in PunctSet /\ tokens[j][1] \in PunctSet
          /\ tokens[i] # tokens[j]

-----------------------------------------------------------------------------
(* labeler(index_no, cols) on one row (LabelerSpec).                       *)

\* the characters raw logs and column values are drawn from
RawAlphabet == {"a", "-", " "}

\* the column names (logs_df.columns without 'raw' and 'raw_preprocess')
cols == <<"ip", "ts">>

\* str(logs_df[col][index_no]): short strings, and the two long skipped ones
ColValues ==
    SeqsUpTo(RawAlphabet, MaxVal) \cup {<<"N", "o", "n", "e">>, <<"N", "a", "N">>}

\* the values labeler skips
Skipped == {<<>>, <<"-">>, <<"N", "o", "n", "e">>, <<"N", "a", "N">>}

BLabel(col) == "B-" \o col
ILabel(col) == "I-" \o col

\* label_list[ind] = 'B-'+col; label_list[ind+1:ind+sublist_len] = ['I-'+col] * (sublist_len - 1)
MarkSpanOnlyB(ll, ind, n, col) == [ll EXCEPT ![ind + 1] = BLabel(col)]
MarkSpan(ll, ind, n, col) ==
    PySliceAssign([ll EXCEPT ![ind + 1] = BLabel(col)], ind + 1, ind + n,
                  Repeat(ILabel(col), n - 1))

\* (raw_split[ind:ind+sublist_len]==sublist) and
\* (label_list[ind:ind+sublist_len] == ['O'] * sublist_len)
SpanFreeIgnoringLabels(rs, ll, sublist, ind) ==
    PySlice(rs, ind, ind + Len(sublist)) = sublist
SpanFree(rs, ll, sublist, ind) ==
    /\ PySlice(rs, ind, ind + Len(sublist)) = sublist
    /\ PySlice(ll, ind, ind + Len(sublist)) = Repeat("O", Len(sublist))

\* The loop over the indices ind (0-based) of raw_split whose element is
\* sublist[0]; hit is the index matched, -1 while there is none.
RECURSIVE ScanFrom(_, _, _, _, _, _, _)
ScanFrom(rs, ll, sublist, col, ind, match_count, hit) ==
    IF ind >= Len(rs)
    THEN [labels |-> ll, hit |-> hit, n |-> Len(sublist), raised |-> FALSE]
    ELSE IF /\ rs[ind + 1] = sublist[1]
            /\ match_count < 1
            /\ SpanFree(rs, ll, sublist, ind)
         THEN ScanFrom(rs, MarkSpan(ll, ind, Len(sublist), col), sublist, col,
                       ind + 1, 1, ind)
         ELSE ScanFrom(rs, ll, sublist, col, ind + 1, match_count, hit)

\* punctuation_spliter(col_value).split(), tabulated once over the column
\* values (@@ makes the table an explicit function)
ValueTokens == [v \in ColValues |-> split(punctuation_spliter(v))] @@ <<>>

\* One pass of `for col in cols` for the value read. sublist[0] is evaluated
\* for the first element of raw_split: with an empty sublist it raises
\* IndexError.
labelCol(rs, ll, col, value) ==
    IF value \in Skipped
    THEN [labels |-> ll, hit |-> -1, n |-> 0, raised |-> FALSE]
    ELSE LET sublist == ValueTokens[value]
         IN  IF sublist = <<>>
             THEN [labels |-> ll, hit |-> -1, n |-> 0, raised |-> rs # <<>>]
             ELSE ScanFrom(rs, ll, sublist, col, 0, 0, -1)

\* logs_df['raw_preprocess']: the punctuation of raw split off, symbol by symbol
LabelerInit ==
    /\ pc = "labeler"
    /\ raw_preprocess \in {punctuation_spliter(r) : r \in SeqsUpTo(RawAlphabet, MaxRaw)}
    /\ raw_split = <<>> /\ label_list = <<>>
    /\ col_no = 0 /\ col_value = <<>> /\ matched = <<>>
    /\ PunctIdle /\ DataIdle /\ SubwordIdle /\ DictIdle /\ PadIdle /\ SplitIdle

LabelerStart ==
    /\ pc = "labeler"
    /\ raw_split' = split(raw_preprocess)
    /\ label_list' = Repeat("O", Len(split(raw_preprocess)))
    /\ col_no' = 0
    /\ pc' = "cols"
    /\ UNCHANGED <<punctVars, raw_preprocess, col_value, matched, dataVars,
                   subwordVars, dictVars, padVars, splitVars>>

LabelerColumn ==
    /\ pc = "cols"
    /\ col_no < Len(cols)
    /\ \E value \in ColValues :
          LET col == cols[col_no + 1]
              r == labelCol(raw_split, label_list, col, value)
          IN  /\ col_value' = value
              /\ IF r.raised
                 THEN /\ pc' = "raised"
                      /\ UNCHANGED <<label_list, col_no, matched>>
                 ELSE /\ pc' = "cols"
                      /\ label_list' = r.labels
                      /\ col_no' = col_no + 1
                      /\ matched' =
                            IF r.hit < 0 THEN matched
                            ELSE Append(matched, <<col, r.hit, r.n>>)
    /\ UNCHANGED <<punctVars, raw_preprocess, raw_split, dataVars,
                   subwordVars, dictVars, padVars, splitVars>>

LabelerReturn ==
    /\ pc = "cols"
    /\ col_no = Len(cols)
    /\ pc' = "returned"
    /\ UNCHANGED <<punctVars, labelerVars, dataVars, subwordVars, dictVars,
                   padVars, splitVars>>

LabelerNext == LabelerStart \/ LabelerColumn \/ LabelerReturn

LabelerSpec == LabelerInit /\ [][LabelerNext]_vars

\* the labels labeler can give
LabelValues == {"O"} \cup {BLabel(cols[c]) : c \in 1..Len(cols)}
                     \cup {ILabel(cols[c]) : c \in 1..Len(cols)}

\* the positions (1-based) of the spans matched so far
InSpan(i) == \E m \in 1..Len(matched) : matched[m][2] + 1 <= i /\ i <= matched[m][2] + matched[m][3]

\* C2: the list labeler returns has one label per whitespace-separated token
\* of raw_preprocess, every label is 'O', 'B-<col>' or 'I-<col>' for a col of
\* cols, and a token is labelled 'O' exactly when it lies outside every span
\* that a column matched.
C2_OneLabelPerToken ==
    pc = "returned" =>
        /\ Len(label_list) = Len(split(raw_preprocess))
        /\ \A i \in 1..Len(label_list) : label_list[i] \in LabelValues
        /\ \A i \in 1..Len(label_list) : (label_list[i] = "O") <=> ~InSpan(i)

\* a returned list with a span of two tokens and a token outside every span
C2_Witness ==
    /\ pc = "returned"
    /\ \E m \in 1..Len(matched) : matched[m][3] >= 2
    /\ \E i \in 1..Len(label_list) : label_list[i] = "O"
    /\ \E i \in 1..Len(label_list) : label_list[i] = ILabel("ip")

\* a BIO sequence: at most one 'B-<col>' per column, and every 'I-<col>' right
\* after 'B-<col>' or 'I-<col>' of the same column
WellFormedBIO(ll) ==
    /\ \A c \in 1..Len(cols) :
          Cardinality({i \in 1..Len(ll) : ll[i] = BLabel(cols[c])}) <= 1
    /\ \A c \in 1..Len(cols) : \A i \in 1..Len(ll) :
          ll[i] = ILabel(cols[c]) =>
              i > 1 /\ ll[i - 1] \in {BLabel(cols[c]), ILabel(cols[c])}

\* C8: a token that has a 'B-' or 'I-' label is never relabelled by a later
\* column, and the label list is a well-formed BIO sequence: each column has at
\* most one 'B-<col>' and every 'I-<col>' follows 'B-<col>' or 'I-<col>' of the
\* same column.
C8_WellFormedNoRelabel ==
    [][pc = "cols" =>
          /\ Len(label_list') = Len(label_list)
          /\ \A i \in 1..Len(label_list) :
                label_list[i] # "O" => label_list'[i] = label_list[i]
          /\ WellFormedBIO(label_list')]_vars

\* the second column's value occurs where the first column's span lies, and
\* both columns have their span
C8_Witness ==
    /\ pc = "returned"
    /\ Len(matched) = 2
    /\ matched[2][2] > matched[1][2]
    /\ ValueTokens[col_value] = <<raw_split[1]>>
    /\ label_list[1] = BLabel("ip")
    /\ \E i \in 1..Len(label_list) : label_list[i] = ILabel("ip")

\* What C1 says a column does to the labels: S is the value's token sequence,
\* i the leftmost index (0-based) of the raw token list with
\* raw_split[i : i+len(S)] == S and all of those positions labelled 'O'.
ClaimedIndices(rs, ll, S) ==
    {i \in 0..(Len(rs) - 1) :
        /\ PySlice(rs, i, i + Len(S)) = S
        /\ \A j \in (i + 1)..(i + Len(S)) : ll[j] = "O"}

ClaimedLabels(rs, ll, col, value) ==
    LET S == ValueTokens[value]
        I == ClaimedIndices(rs, ll, S)
    IN  IF value \in Skipped \/ I = {} THEN ll
        ELSE LET i == CHOOSE x \in I : \A y \in I : x <= y
             IN  [j \in 1..Len(ll) |->
                     IF j = i + 1 THEN BLabel(col)
                     ELSE IF i + 1 < j /\ j <= i + Len(S) THEN ILabel(col)
                     ELSE ll[j]]

\* C1: for every column value that is not '', '-', 'None' or 'NaN', labeler
\* labels the leftmost free occurrence of the value's token sequence with
\* 'B-<col>' and 'I-<col>'; a skipped value, or one without such an occurrence,
\* changes no label.
C1_AlignsEveryValue ==
    [][pc = "cols" /\ col_no < Len(cols) =>
          label_list' = ClaimedLabels(raw_split, label_list, cols[col_no + 1], col_value')]_vars

\* What the code does for the skipped values and for the values that have at
\* least one token: the alignment described above, and no exception.
AlignsValuesWithTokens ==
    [][pc = "cols" /\ col_no < Len(cols)
          /\ (col_value' \in Skipped \/ ValueTokens[col_value'] # <<>>) =>
          /\ pc' = "cols"
          /\ label_list' = ClaimedLabels(raw_split, label_list, cols[col_no + 1], col_value')]_vars

\* A value of whitespace only on a row with tokens: labeler raises IndexError.
RaisesOnlyOnEmptySublist ==
    pc = "raised" <=>
        /\ col_no < Len(cols) /\ raw_split # <<>>
        /\ col_value \notin Skipped /\ ValueTokens[col_value] = <<>>

-----------------------------------------------------------------------------
(* The labelled dataset: labels.append(labeler(indx, cols)) for every row.  *)

\* labeler as a function of the row: its raw_preprocess text and the values
\* of its columns (values[c] is str(logs_df[cols[c]][index_no])).
RECURSIVE labelerFrom(_, _, _, _)
labelerFrom(rs, ll, c, values) ==
    IF c > Len(cols) THEN [labels |-> ll, raised |-> FALSE]
    ELSE LET r == labelCol(rs, ll, cols[c], values[c])
         IN  IF r.raised THEN [labels |-> ll, raised |-> TRUE]
             ELSE labelerFrom(rs, r.labels, c + 1, values)

labeler(rp, values) ==
    labelerFrom(split(rp), Repeat("O", Len(split(rp))), 1, values)

\* the raw logs and column values the rows of a dataset are drawn from
SampleRaws == {<<"a">>, <<"a", "a">>, <<"a", "-">>, <<"-", "a", " ", "a">>}
SampleValues == {<<>>, <<"a">>, <<"-">>, <<"a", "-">>, <<"-", "a">>}

\* the rows: raw_preprocess and the label list labeler returns for it
SampleRows ==
    {[log |-> punctuation_spliter(r), tags |-> labeler(punctuation_spliter(r), v).labels] :
        <<r, v>> \in {x \in SampleRaws \X [1..Len(cols) -> SampleValues] :
                         ~labeler(punctuation_spliter(x[1]), x[2]).raised}}

Range(f) == {f[x] : x \in DOMAIN f}

\* the words of the sample logs
SampleWords == UNION {Range(split(punctuation_spliter(r))) : r \in SampleRaws}

\* a dataset of at most MaxRows rows
DataInit ==
    \E rows \in SeqsUpTo(SampleRows, MaxRows) :
        /\ log_list = [i \in 1..Len(rows) |-> rows[i].log]
        /\ labels = [i \in 1..Len(rows) |-> rows[i].tags]

-----------------------------------------------------------------------------
(* subword_labeler(tokenizer, log_list, label_list) (SubwordSpec).         *)

\* tokenizer(words, ...)['metadata'][:,2]: per word, the index of its last
\* piece, which is the number of its additional pieces
SubwordCounts(log) ==
    LET words == split(log) IN [i \in 1..Len(words) |-> tokenizer[words[i]]]

\* 'X' * subword_counts[i].item(), as extend() adds it: one 'X' per character
PieceLabelsOneMore(count) == Repeat("X", count + 1)
PieceLabels(count) == Repeat("X", count)

\* for i, tag in enumerate(tags): append the tag, extend with the 'X's
RECURSIVE TempTags(_, _, _)
TempTags(tags, counts, i) ==
    IF i > Len(tags) THEN <<>>
    ELSE <<tags[i]>> \o PieceLabels(counts[i]) \o TempTags(tags, counts, i + 1)

\* for log, tags in zip(log_list, label_list)
subword_labeler(logs, label_rows) ==
    [r \in 1..Min(Len(logs), Len(label_rows)) |->
        TempTags(label_rows[r], SubwordCounts(logs[r]), 1)]

SubwordInit ==
    /\ pc = "subword"
    /\ DataInit
    /\ tokenizer \in [SampleWords -> 0..MaxPieces]
    /\ subword_counts = <<>> /\ subword_labels = <<>>
    /\ PunctIdle /\ LabelerIdle /\ DictIdle /\ PadIdle /\ SplitIdle

SubwordLabeler ==
    /\ pc = "subword"
    /\ subword_counts' = [r \in 1..Len(log_list) |-> SubwordCounts(log_list[r])]
    /\ subword_labels' = subword_labeler(log_list, labels)
    /\ pc' = "subword_done"
    /\ UNCHANGED <<punctVars, labelerVars, dataVars, tokenizer, dictVars, padVars,
                   splitVars>>

SubwordNext == SubwordLabeler

SubwordSpec == SubwordInit /\ [][SubwordNext]_vars

RECURSIVE SumTo(_, _)
SumTo(counts, i) == IF i <= 0 THEN 0 ELSE counts[i] + SumTo(counts, i - 1)

\* C3: subword_labeler returns one list per (log, tags) pair, in order; the
\* list of a log is, for word i in order, tags[i] followed by subword_counts[i]
\* copies of 'X', so that dropping its 'X' entries gives back the tags.
C3_FirstPieceKeepsLabel ==
    pc = "subword_done" =>
        /\ Len(subword_labels) = Len(labels)
        /\ \A r \in 1..Len(labels) :
              LET out == subword_labels[r]
                  tags == labels[r]
                  counts == subword_counts[r]
              IN  /\ Len(counts) = Len(tags)
                  /\ Len(out) = Len(tags) + SumTo(counts, Len(tags))
                  /\ \A i \in 1..Len(tags) :
                        LET at == i + SumTo(counts, i - 1)
                        IN  /\ out[at] = tags[i]
                            /\ \A q \in 1..counts[i] : out[at + q] = "X"
                  /\ Without(out, {"X"}) = tags

\* two rows, one with a labelled word of two additional pieces followed by a
\* word of none
C3_Witness ==
    /\ pc = "subword_done"
    /\ Len(subword_labels) = 2
    /\ subword_labels[1] # subword_labels[2]
    /\ \E r \in 1..2 :
          /\ Len(labels[r]) >= 2
          /\ labels[r][1] = BLabel("ip")
          /\ subword_counts[r][1] = 2
          /\ subword_counts[r][2] = 0

-----------------------------------------------------------------------------
(* label2id and id2label (DictSpec).                                       *)

\* set(x for l in labels for x in l)
LabelSet(label_rows) == UNION {Range(label_rows[r]) : r \in 1..Len(label_rows)}

\* the orders list(set) can give the elements of S
Orders(S) ==
    {o \in [1..Cardinality(S) -> S] : \A i, j \in 1..Cardinality(S) : o[i] = o[j] => i = j}

\* label_values[:0] = ['[PAD]']
WithPadLast(order) == order \o <<"[PAD]">>
WithPadFirst(order) == <<"[PAD]">> \o order

\* {t: i for i, t in enumerate(label_values)}: a later entry of a key replaces
\* an earlier one
EnumerateDict(lv) ==
    [t \in Range(lv) |->
        CHOOSE i \in 0..(Len(lv) - 1) :
            lv[i + 1] = t /\ \A j \in (i + 1)..(Len(lv) - 1) : lv[j + 1] # t]

\* d.update({k: v})
DictUpdate(d, k, v) == [x \in DOMAIN d \cup {k} |-> IF x = k THEN v ELSE d[x]]

\* the keys of the dictionary in insertion order: those of label_values, then
\* 'X' unless it is one of them
RECURSIVE Dedup(_, _)
Dedup(s, seen) ==
    IF s = <<>> THEN <<>>
    ELSE (IF Head(s) \in seen THEN <<>> ELSE <<Head(s)>>)
         \o Dedup(Tail(s), seen \cup {Head(s)})

Keys(lv) == Dedup(lv \o <<"X">>, {})

\* {label2id[key] : key for key in label2id.keys()}: a later key with the same
\* id replaces an earlier one
InvertDict(d, keys) ==
    [k \in {d[x] : x \in DOMAIN d} |->
        keys[CHOOSE i \in 1..Len(keys) :
                 d[keys[i]] = k /\ \A j \in (i + 1)..Len(keys) : d[keys[j]] # k]]

DictInit ==
    /\ pc = "dict"
    /\ DataInit
    /\ PunctIdle /\ LabelerIdle /\ SubwordIdle /\ DictIdle /\ PadIdle /\ SplitIdle

BuildLabel2id ==
    /\ pc = "dict"
    /\ \E order \in Orders(LabelSet(labels)) :
          /\ label_values' = WithPadFirst(order)
          /\ label2id' = DictUpdate(EnumerateDict(WithPadFirst(order)), "X", -100)
    /\ pc' = "dict_built"
    /\ UNCHANGED <<punctVars, labelerVars, dataVars, subwordVars, id2label,
                   padVars, splitVars>>

BuildId2label ==
    /\ pc = "dict_built"
    /\ id2label' = InvertDict(label2id, Keys(label_values))
    /\ pc' = "dict_done"
    /\ UNCHANGED <<punctVars, labelerVars, dataVars, subwordVars, label_values,
                   label2id, padVars, splitVars>>

DictNext == BuildLabel2id \/ BuildId2label

DictSpec == DictInit /\ [][DictNext]_vars

\* C4: label2id maps '[PAD]' to 0, 'X' to -100 and the n distinct labels of
\* the dataset to distinct integers of 1..n, and id2label is its inverse.
C4_LabelDictionary ==
    pc = "dict_done" =>
        LET L == LabelSet(labels)
        IN  /\ DOMAIN label2id = L \cup {"[PAD]", "X"}
            /\ label2id["[PAD]"] = 0
            /\ label2id["X"] = -100
            /\ \A l \in L : label2id[l] \in 1..Cardinality(L)
            /\ \A l, m \in DOMAIN label2id : label2id[l] = label2id[m] => l = m
            /\ DOMAIN id2label = {label2id[l] : l \in DOMAIN label2id}
            /\ \A l \in DOMAIN label2id : id2label[label2id[l]] = l
            /\ \A k \in DOMAIN id2label : label2id[id2label[k]] = k

\* a dataset of two rows with at least four distinct labels between them
C4_Witness ==
    /\ pc = "dict_done"
    /\ Len(labels) = 2
    /\ Cardinality(LabelSet(labels)) >= 4
    /\ LabelSet(labels) # Range(labels[1])
    /\ label2id["O"] # 1

-----------------------------------------------------------------------------
(* padded_labels and int_labels (PadSpec).                                 *)

\* the length of the model's input, to which label rows are cut and padded
PadWidth == 512

\* pad(l, content, width): l after l.extend([content] * (width - len(l))),
\* which is also what pad returns
pad(l, content, width) == l \o Repeat(content, width - Len(l))

\* The argument handed to pad: x[:512] is a new list, so that pad's extend
\* does not reach x (alias would say that the argument is x itself).
CutRowNoCopy(x) == [alias |-> TRUE, list |-> x]
CutRow(x) == [alias |-> FALSE, list |-> PySlice(x, 0, PadWidth)]

\* label2id.get(l)
DictGet(d, k) == IF k \in DOMAIN d THEN d[k] ELSE "None"

\* The rows of PadSpec: the labels of a sample row of two words followed by n
\* unlabelled words, every word with the same number c of additional pieces.
PadHeads == {row.tags : row \in {x \in SampleRows : Len(x.tags) = 2}}
FillCounts == (0..MaxShort) \cup ((PadWidth - MaxNear)..(PadWidth + MaxNear))
PadTags(head, n) == head \o Repeat("O", n)
PadRow(head, n, c) ==
    [i \in 1..((Len(head) + n) * (c + 1)) |->
        IF (i - 1) % (c + 1) # 0 THEN "X"
        ELSE IF (i - 1) \div (c + 1) < Len(head) THEN head[((i - 1) \div (c + 1)) + 1]
        ELSE "O"]

PadInit ==
    /\ pc = "dict"
    /\ \E head \in PadHeads, n \in FillCounts, c \in 0..MaxPieces :
          \/ /\ labels = <<PadTags(head, n)>>
             /\ subword_labels = <<PadRow(head, n, c)>>
          \/ \E first \in PadHeads :
                /\ labels = <<first, PadTags(head, n)>>
                /\ subword_labels = <<PadRow(first, 0, 1), PadRow(head, n, c)>>
    /\ log_list = <<>> /\ tokenizer = <<>> /\ subword_counts = <<>>
    /\ PunctIdle /\ LabelerIdle /\ DictIdle /\ PadIdle /\ SplitIdle

PadLabels ==
    /\ pc = "dict_built"
    /\ padded_labels' =
          [r \in 1..Len(subword_labels) |->
              pad(CutRow(subword_labels[r]).list, "[PAD]", PadWidth)]
    /\ subword_labels' =
          [r \in 1..Len(subword_labels) |->
              IF CutRow(subword_labels[r]).alias THEN padded_labels'[r]
              ELSE subword_labels[r]]
    /\ int_labels' =
          [r \in 1..Len(padded_labels') |->
              [i \in 1..Len(padded_labels'[r]) |->
                  DictGet(label2id, padded_labels'[r][i])]]
    /\ pc' = "pad_done"
    /\ UNCHANGED <<punctVars, labelerVars, dataVars, tokenizer, subword_counts,
                   dictVars, splitVars>>

PadNext == BuildLabel2id \/ PadLabels

PadSpec == PadInit /\ [][PadNext]_vars

\* C5: every row of int_labels has exactly 512 integer entries; its first
\* min(len(s), 512) entries are the ids of the row's sub-word labels s in
\* order and the others are 0, the id of '[PAD]'; a row longer than 512 is cut
\* to its first 512 labels; and subword_labels is left unchanged.
C5_PaddedIds ==
    [][pc = "dict_built" =>
          /\ subword_labels' = subword_labels
          /\ Len(int_labels') = Len(subword_labels)
          /\ \A r \in 1..Len(subword_labels) :
                LET s == subword_labels[r]
                    row == int_labels'[r]
                IN  /\ Len(row) = 512
                    /\ \A i \in 1..512 : row[i] \in Int
                    /\ \A i \in 1..Min(Len(s), 512) : row[i] = label2id[s[i]]
                    /\ \A i \in (Min(Len(s), 512) + 1)..512 : row[i] = 0
                    /\ label2id["[PAD]"] = 0]_vars

\* a row shorter than 512 and a row longer than 512 were padded and cut
C5_Witness ==
    /\ pc = "pad_done"
    /\ Len(subword_labels) = 2
    /\ Len(subword_labels[1]) < 512
    /\ Len(subword_labels[2]) > 512
    /\ subword_labels[2][511] = "O"
    /\ subword_labels[2][512] = "X"
    /\ int_labels[1][512] = 0
    /\ int_labels[2][511] = label2id["O"]
    /\ int_labels[2][512] = -100

-----------------------------------------------------------------------------
(* random_split(dataset, (int(dataset_size*.8), int(dataset_size*.2)))     *)
(* (SplitSpec).                                                            *)

\* int(dataset_size*.8) and int(dataset_size*.2). The doubles .8 and .2 lie
\* just above 8/10 and 2/10 and the product is rounded to the nearest double,
\* so for the sizes of a dataset the truncated product is the floor of the
\* exact one (an exact multiple is never rounded below itself).
TrainingLength(n) == (8 * n) \div 10
ValidationLength(n) == (2 * n) \div 10

SplitInit ==
    /\ pc = "split"
    /\ dataset_size \in 0..MaxSize
    /\ training_dataset = <<>> /\ validation_dataset = <<>>
    /\ PunctIdle /\ LabelerIdle /\ DataIdle /\ SubwordIdle /\ DictIdle /\ PadIdle

\* random_split raises ValueError unless the lengths sum to len(dataset);
\* otherwise it cuts a random permutation of the indices at the lengths.
RandomSplit ==
    /\ pc = "split"
    /\ IF TrainingLength(dataset_size) + ValidationLength(dataset_size) # dataset_size
       THEN /\ pc' = "split_raised"
            /\ UNCHANGED <<training_dataset, validation_dataset>>
       ELSE /\ pc' = "split_done"
            /\ \E perm \in Orders(0..(dataset_size - 1)) :
                  /\ training_dataset' = SubSeq(perm, 1, TrainingLength(dataset_size))
                  /\ validation_dataset' =
                        SubSeq(perm, TrainingLength(dataset_size) + 1,
                               TrainingLength(dataset_size) + ValidationLength(dataset_size))
    /\ UNCHANGED <<punctVars, labelerVars, dataVars, subwordVars, dictVars, padVars,
                   dataset_size>>

SplitNext == RandomSplit

SplitSpec == SplitInit /\ [][SplitNext]_vars

\* C6: for a dataset of any size n the split succeeds and partitions the
\* dataset: int(0.8*n) training records, int(0.2*n) validation records,
\* disjoint, together every record, and int(0.8*n) + int(0.2*n) = n.
C6_SplitPartitions ==
    pc # "split" =>
        /\ pc = "split_done"
        /\ Len(training_dataset) = TrainingLength(dataset_size)
        /\ Len(validation_dataset) = ValidationLength(dataset_size)
        /\ Range(training_dataset) \cap Range(validation_dataset) = {}
        /\ Range(training_dataset) \cup Range(validation_dataset) = 0..(dataset_size - 1)
        /\ TrainingLength(dataset_size) + ValidationLength(dataset_size) = dataset_size

\* What the code does: the split raises exactly for the sizes that are not
\* a multiple of 5, and partitions the dataset otherwise.
SplitOfMultiplesOfFive ==
    /\ pc = "split_raised" <=> (pc # "split" /\ dataset_size % 5 # 0)
    /\ pc = "split_done" =>
          /\ Len(training_dataset) = TrainingLength(dataset_size)
          /\ Len(validation_dataset) = ValidationLength(dataset_size)
          /\ Range(training_dataset) \cap Range(validation_dataset) = {}
          /\ Range(training_dataset) \cup Range(validation_dataset) = 0..(dataset_size - 1)

====
